---- MODULE Spec2Model ----
(***************************************************************************)
(* Model of biota/calibration.py: the shapefile rasterisation              *)
(* (rasterizeShapefile, _world2Pixel, dilateMask), the enhanced Lee filter *)
(* (enhanced_lee_filter) and the ALOS tile (construction, getGamma0,       *)
(* getAGB).                                                                *)
(*                                                                         *)
(* Map coordinates are integers in sub-pixel units: one pixel is           *)
(* PixelWidth units wide, so every quotient the code forms in floating     *)
(* point is an exact rational here and int(), round() and floor() are      *)
(* computed on it exactly.  The code is Python 2 (it slices with           *)
(* window_size / 2): int() truncates toward zero, round() rounds halves    *)
(* away from zero, / on two ints is floor division.                        *)
(***************************************************************************)
EXTENDS Integers, Sequences, FiniteSets, TLC

VARIABLES pc, call, loc, ret

vars == <<pc, call, loc, ret>>

None == "None"

(***************************************************************************)
(* Bounds of the model.                                                    *)
(***************************************************************************)
\* geo_t[1] of the modelled tiles, in map units; geo_t[5] is its negative
PixelWidth == 4
\* the largest xSize and ySize of a modelled tile
MaxSize == 2
\* the most shapes a modelled shapefile holds
MaxShapes == 2
\* geo_t[0] and geo_t[3] of the modelled tiles
OriginX == 20
OriginY == 40
\* the shapefile's reference system is the tile's moved by (ShiftX, ShiftY)
ShiftX == 3
ShiftY == 7

(***************************************************************************)
(* Arithmetic of the Python 2 built-ins the code uses.                     *)
(***************************************************************************)
Abs(a) == IF a < 0 THEN -a ELSE a

Min(S) == CHOOSE m \in S : \A o \in S : m <= o

Max(S) == CHOOSE m \in S : \A o \in S : m >= o

\* int(a / b) on floats: the quotient truncated toward zero
PyIntQuot(a, b) ==
    LET q == Abs(a) \div Abs(b)
    IN  IF (a >= 0) = (b > 0) THEN q ELSE -q

\* int(round(a / b)) for a >= 0, b > 0: halves round away from zero
PyIntRound(a, b) == (2 * a + b) \div (2 * b)

\* floor(a / b), the quotient the specification of the mapping asks for
FloorQuot(a, b) == IF b > 0 THEN a \div b ELSE (-a) \div (-b)

(***************************************************************************)
(* _world2Pixel (lines 551-573).                                           *)
(***************************************************************************)
world2Pixel(geo_t, x, y, buffer_size) ==
    LET ulX   == geo_t[1] - buffer_size
        ulY   == geo_t[4] + buffer_size
        xDist == geo_t[2]
        yDist == geo_t[6]
        pixel == PyIntQuot(x - ulX, xDist)
        line  == PyIntQuot(y - ulY, yDist)
    IN  <<pixel, line>>

(***************************************************************************)
(* The reprojection of _coordinateTransformer (lines 521-548): the         *)
(* shapefile's reference system is the tile's translated by a datum shift. *)
(***************************************************************************)
TransformPoint(x, y) == <<x + ShiftX, y + ShiftY>>

(***************************************************************************)
(* PIL: an image is its size (w, h) and the set of its pixels (x, y) that  *)
(* are not 0.  Drawing outside the image is clipped.                       *)
(***************************************************************************)
ImageNew(w, h) == [w |-> w, h |-> h, on |-> {}]

Clip(im, S) == {p \in S : p[1] >= 0 /\ p[1] < im.w /\ p[2] >= 0 /\ p[2] < im.h}

\* ImageDraw.point(pixels, 1)
DrawPoint(im, pixels) ==
    [im EXCEPT !.on = @ \cup Clip(im, {pixels[i] : i \in 1..Len(pixels)})]

\* the pixels of one segment (Bresenham, both ends drawn)
Segment(p, q) ==
    LET dx == Abs(q[1] - p[1])
        dy == Abs(q[2] - p[2])
        xs == IF q[1] < p[1] THEN -1 ELSE 1
        ys == IF q[2] < p[2] THEN -1 ELSE 1
    IN  IF dx = 0 /\ dy = 0 THEN {p}
        ELSE IF dx >= dy
        THEN {<<p[1] + xs * i, p[2] + ys * ((2 * i * dy + dx) \div (2 * dx))>> : i \in 0..dx}
        ELSE {<<p[1] + xs * ((2 * i * dx + dy) \div (2 * dy)), p[2] + ys * i>> : i \in 0..dy}

\* ImageDraw.line(pixels, 1): the segments between successive pixels
DrawLine(im, pixels) ==
    [im EXCEPT !.on = @ \cup Clip(im,
        UNION {Segment(pixels[i], pixels[i + 1]) : i \in 1..(Len(pixels) - 1)})]

\* ImageDraw.polygon(pixels, 1), for the axis-parallel rectangles the
\* modelled shapefiles hold: the outline and everything inside it
DrawPolygon(im, pixels) ==
    LET xs == {pixels[i][1] : i \in 1..Len(pixels)}
        ys == {pixels[i][2] : i \in 1..Len(pixels)}
    IN  [im EXCEPT !.on = @ \cup Clip(im, (Min(xs)..Max(xs)) \X (Min(ys)..Max(ys)))]

(***************************************************************************)
(* numpy: a 2D boolean array is its shape (rows, cols) and the set of its  *)
(* True positions (r, c).                                                  *)
(***************************************************************************)
\* gdalnumeric.fromstring(rasterPoly.tobytes()) reshaped to
\* (im.size[1], im.size[0]) (lines 738-739)
FromImage(im) ==
    [rows |-> im.h, cols |-> im.w, on |-> {<<p[2], p[1]>> : p \in im.on}]

Cells(m) == (0..(m.rows - 1)) \X (0..(m.cols - 1))

\* one pass of scipy's binary_dilation with its default cross-shaped
\* structuring element
DilateOnce(m) ==
    [m EXCEPT !.on = @ \cup
        {p \in Cells(m) : \E o \in m.on : Abs(o[1] - p[1]) + Abs(o[2] - p[2]) = 1}]

\* a single pass whatever buffer_px is
dilateMaskOnePass(mask, buffer_px) == DilateOnce(mask)

RECURSIVE dilateMask(_, _)
\* dilateMask (lines 504-518), called with buffer_px >= 1
dilateMask(mask, buffer_px) ==
    IF buffer_px <= 0 THEN mask
    ELSE dilateMask(DilateOnce(mask), buffer_px - 1)

\* mask[buffer_px:rows-buffer_px, buffer_px:cols-buffer_px] (line 746)
CropMask(mask, buffer_px) ==
    [rows |-> mask.rows - 2 * buffer_px,
     cols |-> mask.cols - 2 * buffer_px,
     on   |-> {<<p[1] - buffer_px, p[2] - buffer_px>> :
                 p \in {o \in mask.on : /\ o[1] >= buffer_px
                                        /\ o[1] < mask.rows - buffer_px
                                        /\ o[2] >= buffer_px
                                        /\ o[2] < mask.cols - buffer_px}}]

(***************************************************************************)
(* The inputs of rasterizeShapefile: the tile (data.geo_t, data.xSize,     *)
(* data.ySize), the buffer and the shapes of the shapefile.                *)
(***************************************************************************)
Tiles ==
    {[xSize |-> xs, ySize |-> ys,
      geo_t |-> <<OriginX, PixelWidth, 0, OriginY, 0, -PixelWidth>>] :
        xs \in 1..MaxSize, ys \in 1..MaxSize}

\* no buffer, less than half a pixel, one pixel, one pixel and a half
BufferSizes == {0, 1, PixelWidth, PixelWidth + PixelWidth \div 2}

\* distances from the tile's upper-left corner, rightwards and downwards:
\* more than a pixel before it, just before it, inside the first pixel,
\* and beyond the second pixel
Offsets == {-(PixelWidth + 1), -1, PixelWidth - 1, 2 * PixelWidth + 1}

\* the point dx right of and dy below the tile's corner, in the
\* shapefile's reference system
Pt(dx, dy) == <<OriginX + dx - ShiftX, OriginY - dy - ShiftY>>

AttrValues == {"a", "b"}

\* pyshp shape types: 0 is what the code draws as a point, 3 as a line,
\* 5 as a polygon; 8 (MultiPoint) is none of them
In == PixelWidth - 1
Far == 2 * PixelWidth + 1

Geometries ==
    \* points in the first row or the first column of the tile, or beside them
    {[shapeType |-> 0, points |-> <<Pt(dx, In)>>, parts |-> <<0>>] : dx \in Offsets}
    \cup
    {[shapeType |-> 0, points |-> <<Pt(In, dy)>>, parts |-> <<0>>] : dy \in Offsets}
    \cup
    \* shapes of a type that is not drawn, inside and far outside
    {[shapeType |-> 8, points |-> <<Pt(dx, In)>>, parts |-> <<0>>] :
        dx \in {-(PixelWidth + 1), In}}
    \cup
    \* lines: across the left edge, down through the tile, sloping, in two parts
    {[shapeType |-> 3, points |-> <<Pt(-1, In), Pt(In, In)>>, parts |-> <<0>>],
     [shapeType |-> 3, points |-> <<Pt(In, -1), Pt(In, Far)>>, parts |-> <<0>>],
     [shapeType |-> 3, points |-> <<Pt(-1, -1), Pt(Far, In)>>, parts |-> <<0>>],
     [shapeType |-> 3, points |-> <<Pt(-1, In), Pt(In, In), Pt(In, Far), Pt(Far, Far)>>,
      parts |-> <<0, 2>>]}
    \cup
    \* lines down the left of the tile, beside it, from above it to below it
    {[shapeType |-> 3, points |-> <<Pt(dx, -1), Pt(dx, Far)>>, parts |-> <<0>>] :
        dx \in {-(PixelWidth + 1), -1}}
    \cup
    \* rectangles: over the corner, inside, and off the corner
    {[shapeType |-> 5,
      points |-> <<Pt(ax, ax), Pt(bx, ax), Pt(bx, bx), Pt(ax, bx), Pt(ax, ax)>>,
      parts |-> <<0>>] :
        ax \in {-(PixelWidth + 1), -1, In}, bx \in {-1, In, Far}}

Shapes == {[geom |-> g, attr |-> a] : g \in Geometries, a \in AttrValues}

\* shape.bbox, as the shapefile stores it: [xmin, ymin, xmax, ymax]
BBox(shape) ==
    LET pts == shape.geom.points
        xs  == {pts[i][1] : i \in 1..Len(pts)}
        ys  == {pts[i][2] : i \in 1..Len(pts)}
    IN  <<Min(xs), Min(ys), Max(xs), Max(ys)>>

(***************************************************************************)
(* rasterizeShapefile (lines 647-751), one shape of its loop.              *)
(***************************************************************************)
\* lines 665-666
BufferPx(data, buffer_size) == PyIntRound(buffer_size, data.geo_t[2])

\* line 669: Image.new takes (width, height)
NewRasterPoly(data, buffer_px) ==
    ImageNew(data.ySize + (buffer_px * 2), data.xSize + (buffer_px * 2))

\* lines 689-700: the four tests that send the loop to the next shape
OutOfBounds(data, shape, buffer_size) ==
    LET bbox == BBox(shape)
        lo   == TransformPoint(bbox[1], bbox[2])
        hi   == TransformPoint(bbox[3], bbox[4])
        sxmin == lo[1]
        symin == lo[2]
        sxmax == hi[1]
        symax == hi[2]
    IN  \/ sxmax < data.geo_t[1] - buffer_size
        \/ sxmin > data.geo_t[1] + (data.geo_t[2] * data.ySize) + buffer_size
        \/ symax < data.geo_t[4] + (data.geo_t[6] * data.xSize) + buffer_size
        \/ symin > data.geo_t[4] - buffer_size

\* lines 712-722: the pixels of the points of part number part (from 0)
PartPixels(data, shape, buffer_size, part) ==
    LET pts     == shape.geom.points
        indices == Append(shape.geom.parts, Len(pts))
        points  == SubSeq(pts, indices[part + 1] + 1, indices[part + 2])
    IN  [i \in 1..Len(points) |->
            LET lonlat == TransformPoint(points[i][1], points[i][2])
            IN  world2Pixel(data.geo_t, lonlat[1], lonlat[2], buffer_size)]

\* lines 724-735: a shape of another type draws nothing
DrawPart(im, shapeType, pixels) ==
    IF shapeType = 0 THEN DrawPoint(im, pixels)
    ELSE IF shapeType = 3 THEN DrawLine(im, pixels)
    ELSE IF shapeType = 5 THEN DrawPolygon(im, pixels)
    ELSE im

RECURSIVE DrawParts(_, _, _, _, _)
\* lines 707-735: the parts from number part on
DrawParts(im, data, shape, buffer_size, part) ==
    IF part >= Len(shape.geom.parts) THEN im
    ELSE DrawParts(DrawPart(im, shape.geom.shapeType,
                            PartPixels(data, shape, buffer_size, part)),
                   data, shape, buffer_size, part + 1)

\* lines 687-735, one iteration: the image after the shape
DrawShape(im, data, shape, buffer_size) ==
    IF OutOfBounds(data, shape, buffer_size) THEN im
    ELSE DrawParts(im, data, shape, buffer_size, 0)

\* the calls of coordTransform.TransformPoint on the shape's vertices
\* (line 719) in one iteration
VertexTransforms(data, shape, buffer_size) ==
    IF OutOfBounds(data, shape, buffer_size) THEN 0
    ELSE Len(shape.geom.points)

\* lines 726-735: the shape passes the bounds tests and no branch draws it
Omitted(data, shape, buffer_size) ==
    /\ ~OutOfBounds(data, shape, buffer_size)
    /\ shape.geom.shapeType \notin {0, 3, 5}

\* value may be left out when field is given
FieldValueOkOrFieldAlone(field, value) == value = None \/ field # None

\* line 663
FieldValueOk(field, value) ==
    \/ field = None /\ value = None
    \/ field # None /\ value # None

\* lines 682-684: the shapes the loop visits
Selected(field, value) ==
    IF field # None THEN {s \in Shapes : s.attr = value} ELSE Shapes

(***************************************************************************)
(* rasterizeShapefile as a process.  The shapefile is read one shape per   *)
(* iteration of the loop (the loop visits each shape once, in order).      *)
(* Beside the image of the call, loc carries rasterPoly0 and mask0: the    *)
(* image and the mask of the same call on the same tile and shapes with    *)
(* buffer_size = 0, computed by the same operators; last is the shape of   *)
(* the iteration just made (empty outside the loop).                       *)
(***************************************************************************)
NoLoc == [buffer_px |-> 0, rasterPoly |-> None, rasterPoly0 |-> None,
          idx |-> 0, last |-> <<>>, omitted |-> FALSE,
          mask |-> None, mask0 |-> None]

\* lines 660-684: the check of field and value, the buffer in pixels, the
\* empty image
RasterizeCall ==
    /\ pc = "idle"
    /\ \E data \in Tiles, buffer_size \in BufferSizes,
          field \in {None, "NAME"}, value \in {None, "a"} :
          /\ call' = [op |-> "rasterizeShapefile", data |-> data,
                      buffer_size |-> buffer_size, field |-> field, value |-> value]
          /\ IF FieldValueOk(field, value)
             THEN /\ pc' = "loop"
                  /\ loc' = [NoLoc EXCEPT
                               !.buffer_px = BufferPx(data, buffer_size),
                               !.rasterPoly = NewRasterPoly(data, BufferPx(data, buffer_size)),
                               !.rasterPoly0 = NewRasterPoly(data, BufferPx(data, 0))]
                  /\ ret' = None
             ELSE /\ pc' = "raised"
                  /\ loc' = NoLoc
                  /\ ret' = "AssertionError"

\* lines 687-735: one iteration of the loop over the shapes
ShapeStep ==
    /\ pc = "loop"
    /\ loc.idx < MaxShapes
    /\ \E shape \in Selected(call.field, call.value) :
          loc' = [loc EXCEPT
                    !.rasterPoly = DrawShape(@, call.data, shape, call.buffer_size),
                    !.rasterPoly0 = DrawShape(@, call.data, shape, 0),
                    !.idx = @ + 1,
                    !.last = <<[geom |-> shape.geom,
                                skipped |-> OutOfBounds(call.data, shape, call.buffer_size),
                                transforms |-> VertexTransforms(call.data, shape, call.buffer_size)]>>,
                    !.omitted = @ \/ Omitted(call.data, shape, call.buffer_size)]
    /\ UNCHANGED <<pc, call, ret>>

\* lines 737-739: the shapefile has no more shapes; the image becomes an array
LoopEnd ==
    /\ pc = "loop"
    /\ pc' = "dilate"
    /\ loc' = [loc EXCEPT !.mask = FromImage(loc.rasterPoly),
                          !.mask0 = FromImage(loc.rasterPoly0),
                          !.last = <<>>]
    /\ UNCHANGED <<call, ret>>

\* lines 741-743
Dilate ==
    /\ pc = "dilate"
    /\ pc' = "crop"
    /\ loc' = [loc EXCEPT
                 !.mask = IF loc.buffer_px > 0 THEN dilateMask(@, loc.buffer_px) ELSE @]
    /\ UNCHANGED <<call, ret>>

\* lines 745-751: the border is cut off, mask > 0 is returned
CropReturn ==
    /\ pc = "crop"
    /\ pc' = "done"
    /\ loc' = [loc EXCEPT !.mask = CropMask(@, loc.buffer_px),
                          !.mask0 = CropMask(@, 0)]
    /\ ret' = CropMask(loc.mask, loc.buffer_px)
    /\ UNCHANGED call

\* the map coordinates _world2Pixel is called with: up to a pixel and a
\* half around the corners of the largest tile
MapXs == (OriginX - PixelWidth - 2)..(OriginX + PixelWidth + 2)
MapYs == (OriginY - PixelWidth - 2)..(OriginY + PixelWidth + 2)

\* _world2Pixel is called on its own
World2PixelCall ==
    /\ pc = "idle"
    /\ pc' = "world2Pixel"
    /\ \E data \in Tiles, x \in MapXs, y \in MapYs, buffer_size \in BufferSizes :
          call' = [op |-> "_world2Pixel", geo_t |-> data.geo_t, x |-> x, y |-> y,
                   buffer_size |-> buffer_size]
    /\ UNCHANGED <<loc, ret>>

\* lines 565-573
World2PixelReturn ==
    /\ pc = "world2Pixel"
    /\ pc' = "done"
    /\ ret' = world2Pixel(call.geo_t, call.x, call.y, call.buffer_size)
    /\ UNCHANGED <<call, loc>>

InitRaster ==
    /\ pc = "idle"
    /\ call = [op |-> None]
    /\ loc = NoLoc
    /\ ret = None

NextRaster ==
    \/ RasterizeCall
    \/ ShapeStep
    \/ LoopEnd
    \/ Dilate
    \/ CropReturn
    \/ World2PixelCall
    \/ World2PixelReturn

SpecRaster == InitRaster /\ [][NextRaster]_vars

Rasterized == pc = "done" /\ call.op = "rasterizeShapefile"

(***************************************************************************)
(* Claims about rasterizeShapefile and _world2Pixel.                       *)
(***************************************************************************)

\* C1: every pixel that is True in the mask rasterizeShapefile returns with
\* buffer_size = 0 is True in the mask it returns, for the same tile and
\* shapes, with a buffer_size > 0.
C1_BufferedIsSuperset ==
    (Rasterized /\ call.buffer_size > 0) => loc.mask0.on \subseteq ret.on

\* C2: _world2Pixel returns the floor of (x - (geo_t[0] - buffer_size)) / geo_t[1]
\* and of (y - (geo_t[3] + buffer_size)) / geo_t[5], also where the quotient
\* is negative and not whole.
C2_World2PixelIsFloor ==
    (pc = "done" /\ call.op = "_world2Pixel") =>
        ret = <<FloorQuot(call.x - (call.geo_t[1] - call.buffer_size), call.geo_t[2]),
                FloorQuot(call.y - (call.geo_t[4] + call.buffer_size), call.geo_t[6])>>

\* C3: the mask rasterizeShapefile returns has as many rows as the tile has
\* lines (ySize) and as many columns as it has pixels per line (xSize).
C3_MaskHasTileShape ==
    Rasterized => (ret.rows = call.data.ySize /\ ret.cols = call.data.xSize)

\* the reprojected bounding box meets the tile's extent grown by buffer_size
\* on its four sides
MeetsBufferedExtent(data, geom, buffer_size) ==
    LET bbox   == BBox([geom |-> geom])
        lo     == TransformPoint(bbox[1], bbox[2])
        hi     == TransformPoint(bbox[3], bbox[4])
        left   == data.geo_t[1] - buffer_size
        right  == data.geo_t[1] + data.geo_t[2] * data.xSize + buffer_size
        top    == data.geo_t[4] + buffer_size
        bottom == data.geo_t[4] + data.geo_t[6] * data.ySize - buffer_size
    IN  hi[1] >= left /\ lo[1] <= right /\ hi[2] >= bottom /\ lo[2] <= top

\* C4: the loop skips a shape exactly when its reprojected bounding box does
\* not meet the tile's extent grown by buffer_size on all four sides, and a
\* skipped shape has none of its vertices transformed.
C4_SkippedIffOutside ==
    (pc = "loop" /\ Len(loc.last) = 1) =>
        /\ loc.last[1].skipped <=>
             ~MeetsBufferedExtent(call.data, loc.last[1].geom, call.buffer_size)
        /\ loc.last[1].skipped => loc.last[1].transforms = 0

\* C8: rasterizeShapefile returns no mask when a shape that passed the
\* bounding-box test is neither a point, a line nor a polygon: it fails.
C8_UnsupportedTypeFails ==
    Rasterized => ~loc.omitted

\* C12: with exactly one of field and value set the call fails with an
\* assertion error before the image is created, the shapefile read or
\* anything drawn; with both set or both unset it does not fail so.
C12_FieldAndValueTogether ==
    call.op = "rasterizeShapefile" =>
        /\ ((call.field = None) # (call.value = None)) =>
              pc = "raised" /\ ret = "AssertionError" /\ loc = NoLoc
        /\ ((call.field = None) = (call.value = None)) =>
              pc # "raised"

\* a call with a field and no value has been rejected with nothing created
C12_Witness ==
    /\ call.op = "rasterizeShapefile" /\ call.field = "NAME" /\ call.value = None
    /\ pc = "raised" /\ ret = "AssertionError" /\ loc = NoLoc

\* the image as an array, as drawn: padded, not dilated, not cropped
Drawn == FromImage(loc.rasterPoly)

\* the positions of the padded array inside the border of n pixels
Interior(m, n) ==
    {p \in Cells(m) : /\ p[1] >= n /\ p[1] < m.rows - n
                      /\ p[2] >= n /\ p[2] < m.cols - n}

\* the positions of m at most n steps (up, down, left, right) from a True one
Within(m, n) ==
    {p \in Cells(m) : \E o \in m.on : Abs(o[1] - p[1]) + Abs(o[2] - p[2]) <= n}

\* C15: the stages run in the order pad, draw, dilate, crop: the shapes are
\* drawn into the image padded by buffer_px on each side before any
\* dilation; the padded array is dilated, when buffer_px > 0, by exactly
\* buffer_px passes; the border is removed after that; so a shape drawn in
\* the border at most buffer_px steps from the tile gives True pixels in
\* the returned mask.
C15_PadDrawDilateCrop ==
    (call.op = "rasterizeShapefile" /\ pc \in {"dilate", "crop", "done"}) =>
        /\ pc = "dilate" => loc.mask = Drawn
        /\ pc = "crop" =>
              /\ <<loc.mask.rows, loc.mask.cols>> = <<Drawn.rows, Drawn.cols>>
              /\ loc.mask.on = Within(Drawn, loc.buffer_px)
        /\ pc = "done" =>
              /\ <<Drawn.rows, Drawn.cols>> =
                    <<ret.rows + 2 * loc.buffer_px, ret.cols + 2 * loc.buffer_px>>
              /\ \A p \in Cells(Drawn) :
                    (p \in Interior(Drawn, loc.buffer_px) /\ p \in Within(Drawn, loc.buffer_px))
                    <=> <<p[1] - loc.buffer_px, p[2] - loc.buffer_px>> \in ret.on
              /\ \A o \in Drawn.on \ Interior(Drawn, loc.buffer_px) :
                    (\E p \in Interior(Drawn, loc.buffer_px) :
                        Abs(o[1] - p[1]) + Abs(o[2] - p[2]) <= loc.buffer_px)
                    => ret.on # {}

\* a mask has been returned whose True pixels all come from a shape drawn
\* in the border, two pixels wide, two steps from the tile
C15_Witness ==
    /\ call.op = "rasterizeShapefile" /\ pc = "done"
    /\ loc.buffer_px = 2
    /\ Drawn.on # {}
    /\ Drawn.on \cap Interior(Drawn, loc.buffer_px) = {}
    /\ \A o \in Drawn.on : \A p \in Interior(Drawn, loc.buffer_px) :
          Abs(o[1] - p[1]) + Abs(o[2] - p[2]) >= 2
    /\ ret.on # {}

(***************************************************************************)
(* enhanced_lee_filter (lines 18-94).                                      *)
(*                                                                         *)
(* A masked grid is [rows, cols, data, mask], data and mask functions of   *)
(* the positions (r, c).  A float is <<>> (nan), <<n, d>> (the rational    *)
(* n / d in lowest terms, d > 0) or, for a weight strictly between 0 and   *)
(* 1, the five numbers <<S, Q, x, k, L>> the blend is computed from.       *)
(***************************************************************************)
\* the most cells a modelled grid has
MaxCells == 4
\* the largest window_size a call is made with
MaxWindow == 3

GridValues == {-1, 0, 3}
WindowSizes == (-1)..MaxWindow
Looks == {4, 16}

Nan == <<>>

RECURSIVE Gcd(_, _)
Gcd(a, b) == IF b = 0 THEN a ELSE Gcd(b, a % b)

Rat(n, d) == LET g == Gcd(Abs(n), d) IN <<n \div g, d \div g>>

RatMul(a, b) == Rat(a[1] * b[1], a[2] * b[2])

RatAdd(a, b) == Rat(a[1] * b[2] + b[1] * a[2], a[2] * b[2])

GridCells(rows, cols) == (0..(rows - 1)) \X (0..(cols - 1))

\* lines 70-71: img.data with nan written over the masked positions
NanMasked(img) ==
    [p \in GridCells(img.rows, img.cols) |->
        IF img.mask[p] THEN Nan ELSE <<img.data[p], 1>>]

\* boundary = 'symm': an index beyond an edge is mirrored about the edge
Reflect(i, n) ==
    IF i < 0 THEN -1 - i
    ELSE IF i >= n THEN 2 * n - 1 - i
    ELSE i

\* border = window_size / 2 (lines 41, 57)
Border(window_size) == window_size \div 2

\* the length of c1[border:-border] along an axis of length n: the full
\* convolution has n + window_size - 1 entries, and -0 is 0
CroppedLen(n, window_size) ==
    LET full  == n + window_size - 1
        start == Border(window_size)
        stop  == IF Border(window_size) > 0 THEN full - Border(window_size) ELSE 0
    IN  IF stop > start THEN stop - start ELSE 0

\* the window_size x window_size values under the kernel for entry p of
\* the cropped convolution, as a function of the kernel position
Window(img, p, window_size) ==
    [ab \in (0..(window_size - 1)) \X (0..(window_size - 1)) |->
        LET q == <<Reflect(p[1] + Border(window_size) - ab[1], img.rows),
                   Reflect(p[2] + Border(window_size) - ab[2], img.cols)>>
        IN  IF img.mask[q] THEN Nan ELSE <<img.data[q], 1>>]

HasNan(w) == \E ab \in DOMAIN w : w[ab] = Nan

RECURSIVE SumOver(_, _, _)
\* the sum of w[ab] ^ power over the kernel positions in S (no value is nan)
SumOver(w, S, power) ==
    IF S = {} THEN 0
    ELSE LET ab == CHOOSE x \in S : TRUE
             v  == w[ab][1]
         IN  (IF power = 2 THEN v * v ELSE v) + SumOver(w, S \ {ab}, power)

\* _window_mean (lines 32-43): nan spreads through the convolution
WindowMean(img, p, window_size) ==
    LET w == Window(img, p, window_size)
    IN  IF HasNan(w) THEN Nan
        ELSE Rat(SumOver(w, DOMAIN w, 1), window_size * window_size)

\* the weight w_t of lines 76-86 from the window's sum S and sum of
\* squares Q: ci = sqrt(k2 * Q - S * S) / S; ci is 0 where the mean is 0
\* (not finite) and is <= 0 where the mean is negative
WeightOf(S, Q, window_size, n_looks) ==
    LET k2 == window_size * window_size
        V  == k2 * Q - S * S
    IN  IF S <= 0 THEN "1"
        ELSE IF V * n_looks <= S * S THEN "1"              \* ci <= cu
        ELSE IF V * n_looks >= (n_looks + 2) * S * S THEN "0"  \* ci >= cmax
        ELSE "exp"

\* line 88 at one position: img_mean * w_t + img_mask * (1 - w_t)
Filtered(img, p, window_size, n_looks) ==
    LET w    == Window(img, p, window_size)
        S    == SumOver(w, DOMAIN w, 1)
        Q    == SumOver(w, DOMAIN w, 2)
        mean == WindowMean(img, p, window_size)
        x    == IF img.mask[p] THEN Nan ELSE <<img.data[p], 1>>
        wt   == WeightOf(S, Q, window_size, n_looks)
    IN  IF HasNan(w) THEN Nan
        ELSE IF wt = "1" THEN RatAdd(RatMul(mean, <<1, 1>>), RatMul(x, <<0, 1>>))
        ELSE IF wt = "0" THEN RatAdd(RatMul(mean, <<0, 1>>), RatMul(x, <<1, 1>>))
        ELSE <<S, Q, x[1], window_size, n_looks>>

\* lines 28-29: type(window_size == int) is a type and always true
LeeAssertsHold(window_size) == (window_size % 2) = 1

\* the outcome of the call: an exception, or the masked grid of lines 90-94
enhanced_lee_filter(img, window_size, n_looks) ==
    LET rows == CroppedLen(img.rows, window_size)
        cols == CroppedLen(img.cols, window_size)
    IN  IF ~LeeAssertsHold(window_size)
        THEN [status |-> "AssertionError"]
        ELSE IF window_size < 0
        THEN [status |-> "ValueError"]   \* np.ones((window_size, window_size))
        ELSE IF rows = img.rows /\ cols = img.cols
        THEN LET img_filtered == [p \in GridCells(rows, cols) |->
                                     Filtered(img, p, window_size, n_looks)]
             IN  [status |-> "ok", rows |-> rows, cols |-> cols,
                  mask |-> [p \in GridCells(rows, cols) |-> img_filtered[p] = Nan],
                  data |-> [p \in GridCells(rows, cols) |->
                              IF img_filtered[p] = Nan THEN <<0, 1>> ELSE img_filtered[p]]]
        ELSE IF rows = 0 /\ cols = 0 /\ img.rows = 1 /\ img.cols = 1
        THEN \* line 88 broadcasts the 1 x 1 grid to the empty statistics
             [status |-> "ok", rows |-> 0, cols |-> 0,
              mask |-> [p \in {} |-> FALSE], data |-> [p \in {} |-> <<0, 1>>]]
        ELSE [status |-> "ValueError"]   \* line 88: shapes do not broadcast

(***************************************************************************)
(* The calls of enhanced_lee_filter.                                       *)
(***************************************************************************)
GridShapes ==
    {rc \in (1..MaxCells) \X (1..MaxCells) : rc[1] * rc[2] <= MaxCells}

\* no position masked, one position masked, every position masked
Masks(rows, cols) ==
    {[p \in GridCells(rows, cols) |-> FALSE], [p \in GridCells(rows, cols) |-> TRUE]}
    \cup {[p \in GridCells(rows, cols) |-> p = q] : q \in GridCells(rows, cols)}

Grids ==
    UNION {{[rows |-> rc[1], cols |-> rc[2], data |-> d, mask |-> m] :
              d \in [GridCells(rc[1], rc[2]) -> GridValues],
              m \in Masks(rc[1], rc[2])} : rc \in GridShapes}

LeeCall ==
    /\ pc = "idle"
    /\ pc' = "enhanced_lee_filter"
    /\ \E img \in Grids, window_size \in WindowSizes, n_looks \in Looks :
          call' = [op |-> "enhanced_lee_filter", img |-> img,
                   window_size |-> window_size, n_looks |-> n_looks]
    /\ UNCHANGED <<loc, ret>>

\* lines 28-94.  loc is what the call leaves behind besides its result: the
\* caller's img.data (line 71 writes into it) and the shape of img_mean and
\* img_std (lines 73-74), when the call gets that far
LeeReturn ==
    /\ pc = "enhanced_lee_filter"
    /\ ret' = enhanced_lee_filter(call.img, call.window_size, call.n_looks)
    /\ pc' = IF ret'.status = "ok" THEN "done" ELSE "raised"
    /\ loc' = [data  |-> IF LeeAssertsHold(call.window_size)
                         THEN NanMasked(call.img)
                         ELSE [p \in GridCells(call.img.rows, call.img.cols) |->
                                 Rat(call.img.data[p], 1)],
               stats |-> IF LeeAssertsHold(call.window_size) /\ call.window_size > 0
                         THEN <<CroppedLen(call.img.rows, call.window_size),
                                CroppedLen(call.img.cols, call.window_size)>>
                         ELSE <<>>]
    /\ UNCHANGED call

InitLee ==
    /\ pc = "idle"
    /\ call = [op |-> None]
    /\ loc = [data |-> <<>>, stats |-> <<>>]
    /\ ret = None

NextLee ==
    \/ LeeCall
    \/ LeeReturn

SpecLee == InitLee /\ [][NextLee]_vars

LeeEnded == pc \in {"done", "raised"} /\ call.op = "enhanced_lee_filter"

OddWindow == call.window_size >= 1 /\ call.window_size % 2 = 1

(***************************************************************************)
(* Claims about enhanced_lee_filter.                                       *)
(***************************************************************************)
\* the k x k window centred on p, mirrored at the borders, has no masked pixel
ClearWindow(img, p, k) ==
    \A dr \in (-(k \div 2))..(k \div 2), dc \in (-(k \div 2))..(k \div 2) :
        ~img.mask[<<Reflect(p[1] + dr, img.rows), Reflect(p[2] + dc, img.cols)>>]

\* the sums of the values and of their squares over that window
RECURSIVE ClearSum(_, _, _, _)
ClearSum(img, p, offsets, power) ==
    IF offsets = {} THEN 0
    ELSE LET o == CHOOSE x \in offsets : TRUE
             v == img.data[<<Reflect(p[1] + o[1], img.rows),
                             Reflect(p[2] + o[2], img.cols)>>]
         IN  (IF power = 2 THEN v * v ELSE v) + ClearSum(img, p, offsets \ {o}, power)

WindowOffsets(k) == ((-(k \div 2))..(k \div 2)) \X ((-(k \div 2))..(k \div 2))

\* ci = stdev / mean is finite and at most cu = sqrt(1 / L); ci not finite counts as 0
CiAtMostCu(img, p, k, L) ==
    LET S == ClearSum(img, p, WindowOffsets(k), 1)
        Q == ClearSum(img, p, WindowOffsets(k), 2)
    IN  S <= 0 \/ (k * k * Q - S * S) * L <= S * S

\* ci is at least cmax = sqrt(1 + 2 / L)
CiAtLeastCmax(img, p, k, L) ==
    LET S == ClearSum(img, p, WindowOffsets(k), 1)
        Q == ClearSum(img, p, WindowOffsets(k), 2)
    IN  S > 0 /\ (k * k * Q - S * S) * L >= (L + 2) * S * S

Uniform(img) ==
    /\ \A p \in GridCells(img.rows, img.cols) : ~img.mask[p]
    /\ \A p, q \in GridCells(img.rows, img.cols) : img.data[p] = img.data[q]

\* the result has a value at p, not masked, equal to the rational n / d
ResultIs(p, n, d) ==
    /\ ret.status = "ok"
    /\ p \in DOMAIN ret.data
    /\ ~ret.mask[p]
    /\ Len(ret.data[p]) = 2
    /\ ret.data[p][1] * d = n * ret.data[p][2]

\* what C6 says of a call that has ended
LeeWeights(img, k, L) ==
    /\ \A p \in GridCells(img.rows, img.cols) :
          ClearWindow(img, p, k) =>
            /\ CiAtMostCu(img, p, k, L) =>
                 ResultIs(p, ClearSum(img, p, WindowOffsets(k), 1), k * k)
            /\ CiAtLeastCmax(img, p, k, L) => ResultIs(p, img.data[p], 1)
    /\ Uniform(img) =>
          \A p \in GridCells(img.rows, img.cols) : ResultIs(p, img.data[p], 1)

\* C6: for every pixel whose window holds no masked pixel, the output is
\* the window mean where ci <= cu and the input pixel where ci >= cmax; a
\* uniform unmasked grid is returned unchanged.
C6_WeightOneMeanWeightZeroInput ==
    (LeeEnded /\ OddWindow) => LeeWeights(call.img, call.window_size, call.n_looks)

\* the same for the windows of 3 and more (not the window of 1, whose
\* statistics are empty)
C6_HoldsFromWindow3 ==
    (LeeEnded /\ OddWindow /\ call.window_size >= 3) =>
        LeeWeights(call.img, call.window_size, call.n_looks)

\* C7: for every odd window_size >= 1 the windowed mean and standard
\* deviation have the shape of the input grid, and so has the output.
C7_StatsAndOutputKeepShape ==
    (LeeEnded /\ OddWindow) =>
        /\ loc.stats = <<call.img.rows, call.img.cols>>
        /\ ret.status = "ok"
        /\ <<ret.rows, ret.cols>> = <<call.img.rows, call.img.cols>>

\* the caller's img.data as it was when the call was made
DataBefore(img) == [p \in GridCells(img.rows, img.cols) |-> <<img.data[p], 1>>]

\* C11: a window_size that is not a positive odd integer (even, zero,
\* negative, negative odd included) is rejected with an assertion error
\* before any array computation.
C11_BadWindowRejectedFirst ==
    (LeeEnded /\ ~OddWindow) =>
        /\ pc = "raised" /\ ret.status = "AssertionError"
        /\ loc.stats = <<>>
        /\ loc.data = DataBefore(call.img)

\* the same for the window sizes that are even or zero (not the negative odd ones)
C11_EvenWindowRejectedFirst ==
    (LeeEnded /\ call.window_size % 2 = 0) =>
        /\ pc = "raised" /\ ret.status = "AssertionError"
        /\ loc.stats = <<>>
        /\ loc.data = DataBefore(call.img)

\* what C14 says of a call that has ended
LeeMasking(img, k) ==
    /\ ret.status = "ok"
    /\ <<ret.rows, ret.cols>> = <<img.rows, img.cols>>
    /\ \A p \in GridCells(img.rows, img.cols) :
          /\ ret.mask[p] <=> ~ClearWindow(img, p, k)
          /\ ret.mask[p] => ret.data[p] = <<0, 1>>
          /\ img.mask[p] => ret.mask[p]

\* C14: an output pixel is masked exactly when its window, mirrored at the
\* borders, holds a masked input pixel; masked output pixels store 0; input
\* masked pixels stay masked; an all-masked input gives, without error, an
\* all-masked all-zero output.
C14_MaskedIffWindowHasMasked ==
    (LeeEnded /\ OddWindow) => LeeMasking(call.img, call.window_size)

\* the same for the windows of 3 and more
C14_HoldsFromWindow3 ==
    (LeeEnded /\ OddWindow /\ call.window_size >= 3) =>
        LeeMasking(call.img, call.window_size)

\* C16: the call leaves the caller's grid as it was: the same stored data,
\* at masked positions too, and the same mask.
C16_ArgumentNotModified ==
    (LeeEnded /\ ret.status = "ok" /\ <<ret.rows, ret.cols>> = <<call.img.rows, call.img.cols>>) =>
        loc.data = DataBefore(call.img)

\* the same for grids with no masked position
C16_UnmaskedArgumentNotModified ==
    (LeeEnded /\ \A p \in GridCells(call.img.rows, call.img.cols) : ~call.img.mask[p]) =>
        loc.data = DataBefore(call.img)

(***************************************************************************)
(* ALOS.__init__ (lines 139-185).  lat, lon and year are ints; now is      *)
(* dt.datetime.now().year at the time of the call; files are the rasters   *)
(* of the tile that exist in dataloc.  A path is the record of the parts   *)
(* its name is formatted from.                                             *)
(***************************************************************************)
Lats == {-91, -90, -18, 0, 90, 91}
Lons == {-181, -180, 33, 180, 181}
Nows == {2016, 2018}
Years == 2005..2019
Rasters == {"sl_HH", "sl_HV", "mask"}

\* line 146
LatOk(lat) == lat < 90 \/ lat > -90

\* line 148
LonOk(lon) == lon < 180 \/ lon > -180

\* line 150
YearOk(year, now) ==
    (year >= 2007 /\ year <= 2010) \/ (year >= 2015 /\ year <= now)

\* ALOS-2 only from the year after 2015
getSatelliteAfter2015(year) == IF year > 2015 THEN "ALOS-2" ELSE "ALOS-1"

\* __getSatellite (lines 187-197)
getSatellite(year) == IF year >= 2015 THEN "ALOS-2" ELSE "ALOS-1"

\* the 'S' / 'N' and 'W' / 'E' of lines 157-158
HemNS(lat) == IF lat < 0 THEN "S" ELSE "N"
HemEW(lon) == IF lon < 0 THEN "W" ELSE "E"

\* what lines 212-213 and 232-233 append to the name pattern
Suffix(satellite) == IF satellite = "ALOS-2" THEN "_F02DAR" ELSE ""

\* __getDirectory (lines 199-218)
getDirectory(lat, lon, year, satellite) ==
    [lat    |-> <<HemNS(lat), Abs(lat + ((5 - lat) % 5))>>,
     lon    |-> <<HemEW(lon), Abs(lon - (lon % 5))>>,
     yy     |-> year % 100,
     kind   |-> "MOS",
     suffix |-> Suffix(satellite)]

\* __getFilename (lines 220-236)
getFilename(lat, lon, year, satellite, append_pattern) ==
    [lat    |-> <<HemNS(lat), Abs(lat)>>,
     lon    |-> <<HemEW(lon), Abs(lon)>>,
     yy     |-> year % 100,
     kind   |-> append_pattern,
     suffix |-> Suffix(satellite)]

\* __getHHPath, __getHVPath, __getMaskPath, __getDatePath (lines 238-264)
getPath(lat, lon, year, satellite, append_pattern) ==
    [directory |-> getDirectory(lat, lon, year, satellite),
     filename  |-> getFilename(lat, lon, year, satellite, append_pattern)]

NoTile == [satellite |-> None, paths |-> <<>>, accessed |-> <<>>, loaded |-> FALSE]

AlosCall ==
    /\ pc = "idle"
    /\ pc' = "__init__"
    /\ \E lat \in Lats, lon \in Lons, year \in Years, now \in Nows,
          files \in SUBSET Rasters :
          call' = [op |-> "ALOS", lat |-> lat, lon |-> lon, year |-> year,
                   now |-> now, files |-> files]
    /\ UNCHANGED <<loc, ret>>

\* lines 144-150
AlosValidate ==
    /\ pc = "__init__"
    /\ IF LatOk(call.lat) /\ LonOk(call.lon) /\ YearOk(call.year, call.now)
       THEN pc' = "paths" /\ ret' = ret
       ELSE pc' = "raised" /\ ret' = "AssertionError"
    /\ UNCHANGED <<call, loc>>

\* lines 152-169
AlosPaths ==
    /\ pc = "paths"
    /\ pc' = "isfile"
    /\ loc' = [loc EXCEPT
                 !.satellite = getSatellite(call.year),
                 !.paths = [k \in {"sl_HH", "sl_HV", "mask", "date"} |->
                              getPath(call.lat, call.lon, call.year,
                                      getSatellite(call.year), k)]]
    /\ UNCHANGED <<call, ret>>

\* lines 171-173: only the HV raster is looked for
AlosIsFile ==
    /\ pc = "isfile"
    /\ loc' = [loc EXCEPT !.accessed = Append(@, <<"isfile", "sl_HV">>)]
    /\ IF "sl_HV" \in call.files
       THEN pc' = "load" /\ ret' = ret
       ELSE pc' = "raised" /\ ret' = "IOError"
    /\ UNCHANGED call

\* lines 175-183: gdal.Open gives None for a file that is not there, and
\* the method called on it raises AttributeError
AlosLoad ==
    /\ pc = "load"
    /\ IF "sl_HH" \notin call.files
       THEN /\ loc' = [loc EXCEPT !.accessed = Append(@, <<"open", "sl_HH">>)]
            /\ pc' = "raised" /\ ret' = "AttributeError"
       ELSE IF "mask" \notin call.files
       THEN /\ loc' = [loc EXCEPT !.accessed = @ \o <<<<"open", "sl_HH">>, <<"open", "sl_HH">>,
                                                     <<"open", "sl_HH">>, <<"open", "mask">>>>]
            /\ pc' = "raised" /\ ret' = "AttributeError"
       ELSE /\ loc' = [loc EXCEPT !.accessed = @ \o <<<<"open", "sl_HH">>, <<"open", "sl_HH">>,
                                                     <<"open", "sl_HH">>, <<"open", "mask">>>>,
                                  !.loaded = TRUE]
            /\ pc' = "done" /\ ret' = "ALOS"
    /\ UNCHANGED call

InitTile ==
    /\ pc = "idle"
    /\ call = [op |-> None]
    /\ loc = NoTile
    /\ ret = None

NextTile ==
    \/ AlosCall
    \/ AlosValidate
    \/ AlosPaths
    \/ AlosIsFile
    \/ AlosLoad

SpecTile == InitTile /\ [][NextTile]_vars

\* the asserts of lines 144-150 have been passed or have failed
Validated == call.op = "ALOS" /\ pc \notin {"idle", "__init__"}

\* nothing of the tile has been built or touched
NothingBuilt == loc.paths = <<>> /\ loc.accessed = <<>> /\ loc.satellite = None

(***************************************************************************)
(* Claims about ALOS.__init__.                                             *)
(***************************************************************************)
\* the years the tile takes: 2007..2010 and 2015..now
YearInRange(year, now) == year \in (2007..2010) \cup (2015..now)

\* every name the tile has built carries the suffix, or none does
AllNamesHave(suffix) ==
    \A k \in DOMAIN loc.paths :
        loc.paths[k].directory.suffix = suffix /\ loc.paths[k].filename.suffix = suffix

\* C9: a year outside 2007..2010 and 2015..now is rejected before any path
\* is built or file accessed; an accepted year selects ALOS-2 and the
\* '_F02DAR' names exactly when it is >= 2015, ALOS-1 and plain names otherwise.
C9_YearRejectedOrSensorChosen ==
    Validated =>
        /\ ~YearInRange(call.year, call.now) =>
              pc = "raised" /\ ret = "AssertionError" /\ NothingBuilt
        /\ (YearInRange(call.year, call.now) /\ pc # "paths") =>
              /\ pc = "raised" => ret # "AssertionError"
              /\ call.year >= 2015 => loc.satellite = "ALOS-2" /\ AllNamesHave("_F02DAR")
              /\ call.year < 2015 => loc.satellite = "ALOS-1" /\ AllNamesHave("")

\* a tile of 2016 has been constructed as ALOS-2 with the '_F02DAR' names
C9_Witness ==
    /\ call.op = "ALOS" /\ pc = "done" /\ call.year = 2016
    /\ loc.satellite = "ALOS-2" /\ loc.paths # <<>> /\ AllNamesHave("_F02DAR")

\* C10: a latitude outside [-90, 90] or a longitude outside [-180, 180] is
\* rejected before any path is built or file accessed.
C10_LatLonRejected ==
    (Validated /\ (call.lat \notin (-90)..90 \/ call.lon \notin (-180)..180)) =>
        pc = "raised" /\ ret = "AssertionError" /\ NothingBuilt

\* the constructor has ended, past the asserts, for a place on the globe
Constructed ==
    /\ call.op = "ALOS" /\ pc \in {"done", "raised"} /\ ret # "AssertionError"
    /\ call.lat \in (-90)..90 /\ call.lon \in (-180)..180

\* no raster has been opened
NothingOpened == \A i \in 1..Len(loc.accessed) : loc.accessed[i][1] # "open"

\* C13: when the HH raster, the HV raster or the mask is absent, the
\* constructor fails with the error for a missing file (IOError), and does
\* so before any raster is opened.
C13_MissingRasterNotFound ==
    (Constructed /\ Rasters \ call.files # {}) =>
        pc = "raised" /\ ret = "IOError" /\ NothingOpened

\* the same when it is the HV raster that is absent
C13_MissingHVNotFound ==
    (Constructed /\ "sl_HV" \notin call.files) =>
        pc = "raised" /\ ret = "IOError" /\ NothingOpened

(***************************************************************************)
(* ALOS.getDN, ALOS.getGamma0 and ALOS.getAGB (lines 344-405) on a         *)
(* constructed tile [rows, cols, DN, mask, satellite]: DN is the HV        *)
(* raster, mask the tile's mask (True = invalid).                          *)
(*                                                                         *)
(* The digital numbers are 0 and powers of ten, so that log10 is exact.    *)
(* A float is a rational <<n, d>>; 10 ** (v / 10.) for a float v is v with *)
(* 10 appended, and 715.667 * g - 5.967 for such a g is g with 715667      *)
(* appended.  A masked array is [rows, cols, data, mask]; what numpy.ma    *)
(* leaves in data under the mask is part of the model, since line 380 and  *)
(* line 401 write 0 under the tile's mask only.                            *)
(***************************************************************************)
\* the most cells a modelled tile has
MaxTileCells == 3

DNValues == {0, 1, 100}
Units == {"natural", "decibels"}

\* numpy.ma computes `10 * a` as multiply(10, a) or as multiply(a, 10),
\* depending on the numpy release; the data kept under the mask is that of
\* the first operand
NumpyBuilds == {"other_first", "self_first"}

CalibTiles ==
    UNION {{[rows |-> rc[1], cols |-> rc[2], DN |-> d, mask |-> m, satellite |-> s] :
              d \in [GridCells(rc[1], rc[2]) -> DNValues],
              m \in Masks(rc[1], rc[2]),
              s \in {"ALOS-1", "ALOS-2"}} :
           rc \in {x \in GridShapes : x[1] * x[2] <= MaxTileCells}}

RECURSIVE Log10(_)
\* log10 of a power of ten
Log10(x) == IF x <= 1 THEN 0 ELSE 1 + Log10(x \div 10)

\* getDN (lines 344-360) followed by astype(np.float): a cell is [d, m]
getDN(tile, p) == [d |-> Rat(tile.DN[p], 1), m |-> tile.mask[p]]

\* a ** 2 (numpy.ma.power): the base stays in data under the mask
MaSquare(a) == [d |-> IF a.m THEN a.d ELSE RatMul(a.d, a.d), m |-> a.m]

\* np.ma.log10: values <= 0 are masked too, and the argument stays in data
\* under the mask
MaLog10(a) ==
    LET m == a.m \/ a.d[1] <= 0
    IN  [d |-> IF m THEN a.d ELSE Rat(Log10(a.d[1]), 1), m |-> m]

\* c * a for a number c (MaskedArray.__rmul__)
MaRMul(c, a, build) ==
    [d |-> IF a.m THEN (IF build = "other_first" THEN c ELSE a.d) ELSE RatMul(c, a.d),
     m |-> a.m]

\* a - c and a / c for a number c: the data of a stays under the mask
MaSub(a, c) == [d |-> IF a.m THEN a.d ELSE RatAdd(a.d, <<-c[1], c[2]>>), m |-> a.m]

\* 10 * np.ma.log10(DN.astype(np.float) ** 2) - 83. (line 370) at p
Decibels(tile, p, build) ==
    MaSub(MaRMul(<<10, 1>>, MaLog10(MaSquare(getDN(tile, p))), build), <<83, 1>>)

\* the masked array of line 370, as enhanced_lee_filter takes it
DecibelGrid(tile, build) ==
    [rows |-> tile.rows, cols |-> tile.cols,
     data |-> [p \in GridCells(tile.rows, tile.cols) |-> Decibels(tile, p, build).d[1]],
     mask |-> [p \in GridCells(tile.rows, tile.cols) |-> Decibels(tile, p, build).m]]

\* lines 373-374: enhanced_lee_filter(gamma0), window 3 and 16 looks; the
\* cells of gamma0 after them
LeeFiltered(tile, lee_filter, build) ==
    IF lee_filter
    THEN LET f == enhanced_lee_filter(DecibelGrid(tile, build), 3, 16)
         IN  [p \in GridCells(tile.rows, tile.cols) |-> [d |-> f.data[p], m |-> f.mask[p]]]
    ELSE [p \in GridCells(tile.rows, tile.cols) |-> Decibels(tile, p, build)]

\* line 377: 10 ** (gamma0 / 10.): numpy.ma.power(10, .) leaves the base,
\* 10, in data under the mask
Natural(a) == [d |-> IF a.m THEN <<10, 1>> ELSE Append(a.d, 10), m |-> a.m]

\* lines 380 and 401: data[self.mask] = 0
ZeroUnderTileMask(tile, cells) ==
    [p \in GridCells(tile.rows, tile.cols) |->
        [d |-> IF tile.mask[p] THEN <<0, 1>> ELSE cells[p].d, m |-> cells[p].m]]

\* getGamma0 (lines 362-382): the cells of the masked array it returns
Gamma0Cells(tile, units, lee_filter, build) ==
    LET g == LeeFiltered(tile, lee_filter, build)
    IN  ZeroUnderTileMask(tile,
            [p \in GridCells(tile.rows, tile.cols) |->
                IF units = "natural" THEN Natural(g[p]) ELSE g[p]])

\* a masked array from its cells
MaskedArray(tile, cells) ==
    [rows |-> tile.rows, cols |-> tile.cols,
     data |-> [p \in GridCells(tile.rows, tile.cols) |-> cells[p].d],
     mask |-> [p \in GridCells(tile.rows, tile.cols) |-> cells[p].m]]

getGamma0(tile, units, lee_filter, build) ==
    MaskedArray(tile, Gamma0Cells(tile, units, lee_filter, build))

\* 715.667 * gamma0 - 5.967 (lines 392, 395) at one cell
AgbOf(g, build) ==
    [d |-> IF g.m THEN (IF build = "other_first" THEN <<715667, 1000>> ELSE g.d)
           ELSE Append(g.d, 715667),
     m |-> g.m]

\* getAGB (lines 384-405); both sensors take the same equation
getAGB(tile, lee_filter, build) ==
    LET g == Gamma0Cells(tile, "natural", lee_filter, build)
    IN  MaskedArray(tile,
            ZeroUnderTileMask(tile,
                [p \in GridCells(tile.rows, tile.cols) |-> AgbOf(g[p], build)]))

GammaCall ==
    /\ pc = "idle"
    /\ pc' = "getGamma0"
    /\ \E tile \in CalibTiles, units \in Units, lee_filter \in BOOLEAN,
          build \in NumpyBuilds :
          call' = [op |-> "getGamma0", tile |-> tile, units |-> units,
                   lee_filter |-> lee_filter, build |-> build]
    /\ UNCHANGED <<loc, ret>>

GammaReturn ==
    /\ pc = "getGamma0"
    /\ pc' = "done"
    /\ ret' = getGamma0(call.tile, call.units, call.lee_filter, call.build)
    /\ UNCHANGED <<call, loc>>

AgbCall ==
    /\ pc = "idle"
    /\ pc' = "getAGB"
    /\ \E tile \in CalibTiles, lee_filter \in BOOLEAN, build \in NumpyBuilds :
          call' = [op |-> "getAGB", tile |-> tile, lee_filter |-> lee_filter,
                   build |-> build]
    /\ UNCHANGED <<loc, ret>>

AgbReturn ==
    /\ pc = "getAGB"
    /\ pc' = "done"
    /\ ret' = getAGB(call.tile, call.lee_filter, call.build)
    /\ UNCHANGED <<call, loc>>

InitCalib ==
    /\ pc = "idle"
    /\ call = [op |-> None]
    /\ loc = <<>>
    /\ ret = None

NextCalib ==
    \/ GammaCall
    \/ GammaReturn
    \/ AgbCall
    \/ AgbReturn

SpecCalib == InitCalib /\ [][NextCalib]_vars

Calibrated == pc = "done" /\ call.op \in {"getGamma0", "getAGB"}

(***************************************************************************)
(* Claims about getGamma0 and getAGB.                                      *)
(***************************************************************************)
\* C5: in the grid getGamma0 or getAGB returns, every position invalid in
\* the tile's mask is masked, and every masked position stores 0, those
\* that became invalid during the computation included.
C5_MaskedPositionsStoreZero ==
    Calibrated =>
        \A p \in GridCells(call.tile.rows, call.tile.cols) :
            /\ call.tile.mask[p] => ret.mask[p]
            /\ ret.mask[p] => ret.data[p] = <<0, 1>>

\* the part of C5 about the tile's own mask: its positions are masked and
\* store 0, and a tile whose mask is all True comes back all masked and zero
C5_TileMaskStoresZero ==
    Calibrated =>
        \A p \in GridCells(call.tile.rows, call.tile.cols) :
            call.tile.mask[p] => ret.mask[p] /\ ret.data[p] = <<0, 1>>

====
